---- MODULE Spec2Model ----
(***************************************************************************)
(* A model of the Nimble compiler backend: the two semantic-analysis       *)
(* listeners (semantics/nimblesemantics.py), their driver function         *)
(* do_semantic_analysis (semantics/nimble_analyser.py), the MIPS generator *)
(* (nimble2MIPS.py, templates.py) and one iteration of the batch driver    *)
(* (batch_compile.py).                                                     *)
(*                                                                         *)
(* A parse tree node is a record [kind, id, tok, kids]; a node is named by *)
(* its path from the root (the sequence of child indexes).  The attributes *)
(* the listeners monkey-patch onto nodes (scope, type, mips) are functions *)
(* from paths; a path outside the function's domain is an attribute that   *)
(* was never set, and reading it raises AttributeError.                    *)
(***************************************************************************)
EXTENDS Integers, Sequences, FiniteSets, TLC

VARIABLES
    input,   \* what is being compiled or analysed, and who called
    phase,   \* where the run is
    todo,    \* the enter/exit events the current tree walk still has to fire
    an,      \* the semantic analysis: scopes, annotations, error log
    result,  \* how do_semantic_analysis and the driver iteration ended
    gen,     \* the MIPSGenerator: label_index, string_literals, mips fragments
    mach     \* a MIPS machine executing a generated fragment

vars == <<input, phase, todo, an, result, gen, mach>>

(***************************************************************************)
(* Bounds of the model.                                                    *)
(***************************************************************************)
MaxDecs == 2      \* variable declarations in a varBlock
MaxStmts == 2     \* statements in the main block handed to the generator
MaxLit == 1       \* small integer literals are 0..MaxLit

(***************************************************************************)
(* Parse trees.                                                            *)
(***************************************************************************)
None == "None"

Ctx(kind, id, tok, kids) == [kind |-> kind, id |-> id, tok |-> tok, kids |-> kids]

IntLiteral(text) == Ctx("IntLiteral", "", text, <<>>)
BoolLiteral(text) == Ctx("BoolLiteral", "", text, <<>>)
StringLiteral(text) == Ctx("StringLiteral", "", text, <<>>)
Variable(name) == Ctx("Variable", name, "", <<>>)
Neg(op, e) == Ctx("Neg", "", op, <<e>>)
Parens(e) == Ctx("Parens", "", "", <<e>>)
MulDiv(op, l, r) == Ctx("MulDiv", "", op, <<l, r>>)
AddSub(op, l, r) == Ctx("AddSub", "", op, <<l, r>>)
Compare(op, l, r) == Ctx("Compare", "", op, <<l, r>>)
FuncCall(name) == Ctx("FuncCall", name, "", <<>>)
FuncCallExpr(name) == Ctx("FuncCallExpr", "", "", <<FuncCall(name)>>)

VarDec(name, type) == Ctx("VarDec", name, type, <<>>)
VarDecInit(name, type, e) == Ctx("VarDec", name, type, <<e>>)
Assignment(name, e) == Ctx("Assignment", name, "", <<e>>)
Block(stmts) == Ctx("Block", "", "", stmts)
While(e, b) == Ctx("While", "", "", <<e, b>>)
If(e, b) == Ctx("If", "", "", <<e, b>>)
IfElse(e, b, c) == Ctx("If", "", "", <<e, b, c>>)
PrintStmt(e) == Ctx("Print", "", "", <<e>>)
Return(kids) == Ctx("Return", "", "", kids)
FuncCallStmt(name) == Ctx("FuncCallStmt", "", "", <<FuncCall(name)>>)
VarBlock(decs) == Ctx("VarBlock", "", "", decs)
Body(decs, stmts) == Ctx("Body", "", "", <<VarBlock(decs), Block(stmts)>>)
Main(decs, stmts) == Ctx("Main", "", "", <<Body(decs, stmts)>>)
FuncDef(name) == Ctx("FuncDef", name, "", <<Body(<<>>, <<>>)>>)
Script(funcDefs, main) == Ctx("Script", "", "", Append(funcDefs, main))

RECURSIVE NodeAt(_, _)
NodeAt(t, p) == IF p = <<>> THEN t ELSE NodeAt(t.kids[Head(p)], Tail(p))

(***************************************************************************)
(* ParseTreeWalker.walk: depth first, enterRule before the children and    *)
(* exitRule after them.  An event carries the node's own tokens and its    *)
(* number of children; child(ev, i) is the path of its i-th child.         *)
(***************************************************************************)
Event(ev, t, p) ==
    [ev |-> ev, kind |-> t.kind, id |-> t.id, tok |-> t.tok, n |-> Len(t.kids), path |-> p]

RECURSIVE WalkEvents(_, _), KidsEvents(_, _, _)
WalkEvents(t, p) ==
    <<Event("enter", t, p)>> \o KidsEvents(t.kids, p, 1) \o <<Event("exit", t, p)>>
KidsEvents(kids, p, i) ==
    IF i > Len(kids) THEN <<>>
    ELSE WalkEvents(kids[i], Append(p, i)) \o KidsEvents(kids, p, i + 1)

child(ctx, i) == Append(ctx.path, i)

(***************************************************************************)
(* symboltable and errorlog (not among the source files; modelled from     *)
(* their specification).  A scope is referred to by its index in the       *)
(* arena an.scopes; index 0 is Python's None.                              *)
(***************************************************************************)
PrimitiveType == {"Int", "Bool", "String", "Void", "ERROR"}

EmptyFn == [x \in {} |-> None]
NoSymbol == [name |-> None, type |-> None]

Scope(name, return_type, enclosing_scope) ==
    [name |-> name, return_type |-> return_type,
     enclosing_scope |-> enclosing_scope, symbols |-> EmptyFn]

define(scopes, sc, name, type) ==
    [scopes EXCEPT ![sc].symbols = (name :> type) @@ @]

resolve_locally(scopes, sc, name) ==
    IF name \in DOMAIN scopes[sc].symbols
    THEN [name |-> name, type |-> scopes[sc].symbols[name]]
    ELSE NoSymbol

RECURSIVE resolve(_, _, _)
resolve(scopes, sc, name) ==
    IF sc = 0 THEN NoSymbol
    ELSE IF resolve_locally(scopes, sc, name) # NoSymbol
         THEN resolve_locally(scopes, sc, name)
         ELSE resolve(scopes, scopes[sc].enclosing_scope, name)

ErrorLog_add(s, ctx, category) ==
    [s EXCEPT !.log = Append(@, [category |-> category, path |-> ctx.path])]

total_entries(log) == Len(log)

Raise(s, e) == [s EXCEPT !.exc = e]

\* A listener as its constructor leaves it (current_scope = None) over the
\* annotations and the error log that the two passes share.
NewListener(s) == [s EXCEPT !.current_scope = 0]

NewAnalysis ==
    [current_scope |-> 0, scopes |-> <<>>, scope |-> EmptyFn, type |-> EmptyFn,
     log |-> <<>>, exc |-> None, visited |-> 0]

(***************************************************************************)
(* Pass 1: DefineScopesAndSymbols.                                         *)
(***************************************************************************)
D_enterScript(s, ctx) ==
    LET id == Len(s.scopes) + 1 IN
    [s EXCEPT !.scopes = Append(@, Scope("$global", "Void", 0)),
              !.scope = (ctx.path :> id) @@ @,
              !.current_scope = id]

D_enterFuncDef(s, ctx) == ErrorLog_add(s, ctx, "UNSUPPORTED_LANGUAGE_FEATURE")

D_enterFuncCall(s, ctx) == ErrorLog_add(s, ctx, "UNSUPPORTED_LANGUAGE_FEATURE")

D_enterMain(s, ctx) ==
    LET id == Len(s.scopes) + 1 IN
    [s EXCEPT !.scopes = Append(@, Scope("$main", "Void", s.current_scope)),
              !.scope = (ctx.path :> id) @@ @,
              !.current_scope = id]

D_exitMain(s, ctx) ==
    IF s.current_scope = 0 THEN Raise(s, "AttributeError")
    ELSE [s EXCEPT !.current_scope = s.scopes[s.current_scope].enclosing_scope]

duplicate_name(s, ctx, name) == resolve_locally(s.scopes, s.current_scope, name) # NoSymbol

\* D_exitVarDec with the duplicate check lost: a repeated declaration is
\* logged and then redefines the name
D_exitVarDec_redefines(s, ctx) ==
    IF s.current_scope = 0 THEN Raise(s, "AttributeError")
    ELSE IF ctx.tok \notin PrimitiveType THEN Raise(s, "KeyError")
    ELSE LET t == IF duplicate_name(s, ctx, ctx.id)
                  THEN ErrorLog_add(s, ctx, "DUPLICATE_NAME") ELSE s
         IN  [t EXCEPT !.scopes = define(s.scopes, s.current_scope, ctx.id, ctx.tok)]

D_exitVarDec(s, ctx) ==
    IF s.current_scope = 0 THEN Raise(s, "AttributeError")
    ELSE IF duplicate_name(s, ctx, ctx.id) THEN ErrorLog_add(s, ctx, "DUPLICATE_NAME")
    ELSE IF ctx.tok \notin PrimitiveType THEN Raise(s, "KeyError")
    ELSE [s EXCEPT !.scopes = define(s.scopes, s.current_scope, ctx.id, ctx.tok)]

DefineScopesAndSymbols(s, ctx) ==
    CASE ctx.ev = "enter" /\ ctx.kind = "Script" -> D_enterScript(s, ctx)
      [] ctx.ev = "enter" /\ ctx.kind = "FuncDef" -> D_enterFuncDef(s, ctx)
      [] ctx.ev = "enter" /\ ctx.kind = "FuncCall" -> D_enterFuncCall(s, ctx)
      [] ctx.ev = "enter" /\ ctx.kind = "Main" -> D_enterMain(s, ctx)
      [] ctx.ev = "exit" /\ ctx.kind = "Main" -> D_exitMain(s, ctx)
      [] ctx.ev = "exit" /\ ctx.kind = "VarDec" -> D_exitVarDec(s, ctx)
      [] OTHER -> s

(***************************************************************************)
(* Pass 2: InferTypesAndCheckConstraints.                                  *)
(***************************************************************************)
Typed(s, p) == p \in DOMAIN s.type

SetType(s, ctx, type) == [s EXCEPT !.type = (ctx.path :> type) @@ @]

\* Python truthiness of the value read from Symbol.type
Truthy(type) == type # None

I_enterScript(s, ctx) ==
    IF s.current_scope = 0 THEN Raise(s, "AttributeError")
    ELSE [s EXCEPT !.current_scope = s.scopes[s.current_scope].enclosing_scope]

I_enterMain(s, ctx) ==
    IF ctx.path \notin DOMAIN s.scope THEN Raise(s, "AttributeError")
    ELSE [s EXCEPT !.current_scope = s.scope[ctx.path]]

I_exitMain(s, ctx) ==
    IF s.current_scope = 0 THEN Raise(s, "AttributeError")
    ELSE [s EXCEPT !.current_scope = s.scopes[s.current_scope].enclosing_scope]

I_exitReturn(s, ctx) ==
    IF s.current_scope = 0 \/ (ctx.n > 0 /\ ~Typed(s, child(ctx, 1)))
    THEN Raise(s, "AttributeError")
    ELSE LET required_type == s.scopes[s.current_scope].return_type
             returned_type == IF ctx.n > 0 THEN s.type[child(ctx, 1)] ELSE "Void"
         IN  IF required_type # returned_type
             THEN ErrorLog_add(s, ctx, "INVALID_RETURN")
             ELSE s

log_invalid_assign(s, ctx) == ErrorLog_add(s, ctx, "ASSIGN_TO_WRONG_TYPE")

I_exitVarDec(s, ctx) ==
    IF ctx.tok \notin PrimitiveType THEN Raise(s, "KeyError")
    ELSE IF ctx.n = 0 THEN s
    ELSE IF ~Typed(s, child(ctx, 1)) THEN Raise(s, "AttributeError")
    ELSE IF ctx.tok # s.type[child(ctx, 1)] THEN log_invalid_assign(s, ctx)
    ELSE s

I_exitAssignment(s, ctx) ==
    IF s.current_scope = 0 THEN Raise(s, "AttributeError")
    ELSE LET symbol == resolve(s.scopes, s.current_scope, ctx.id) IN
         IF symbol = NoSymbol THEN Raise(s, "AttributeError")
         ELSE IF ~Truthy(symbol.type) THEN ErrorLog_add(s, ctx, "UNDEFINED_NAME")
         ELSE IF ~Typed(s, child(ctx, 1)) THEN Raise(s, "AttributeError")
         ELSE IF symbol.type # s.type[child(ctx, 1)] THEN log_invalid_assign(s, ctx)
         ELSE s

check_boolean_condition(s, ctx) ==
    IF ~Typed(s, child(ctx, 1)) THEN Raise(s, "AttributeError")
    ELSE IF s.type[child(ctx, 1)] # "Bool" THEN ErrorLog_add(s, ctx, "CONDITION_NOT_BOOL")
    ELSE s

I_exitWhile(s, ctx) == check_boolean_condition(s, ctx)

I_exitIf(s, ctx) == check_boolean_condition(s, ctx)

I_exitPrint(s, ctx) ==
    IF ~Typed(s, child(ctx, 1)) THEN Raise(s, "AttributeError")
    ELSE IF s.type[child(ctx, 1)] = "ERROR" THEN ErrorLog_add(s, ctx, "UNPRINTABLE_EXPRESSION")
    ELSE s

I_exitFuncCallStmt(s, ctx) ==
    IF ~Typed(s, child(ctx, 1)) THEN Raise(s, "AttributeError")
    ELSE SetType(s, ctx, s.type[child(ctx, 1)])

I_exitIntLiteral(s, ctx) == SetType(s, ctx, "Int")

I_exitNeg(s, ctx) ==
    IF ~Typed(s, child(ctx, 1)) THEN Raise(s, "AttributeError")
    ELSE IF ctx.tok = "-" /\ s.type[child(ctx, 1)] = "Int" THEN SetType(s, ctx, "Int")
    ELSE IF ctx.tok = "!" /\ s.type[child(ctx, 1)] = "Bool" THEN SetType(s, ctx, "Bool")
    ELSE ErrorLog_add(SetType(s, ctx, "ERROR"), ctx, "INVALID_NEGATION")

I_exitParens(s, ctx) ==
    IF ~Typed(s, child(ctx, 1)) THEN Raise(s, "AttributeError")
    ELSE SetType(s, ctx, s.type[child(ctx, 1)])

\* binary_on_ints with `or` for `and`
binary_on_ints_either(s, ctx, result_type) ==
    IF ~Typed(s, child(ctx, 1)) \/ ~Typed(s, child(ctx, 2)) THEN Raise(s, "AttributeError")
    ELSE IF s.type[child(ctx, 1)] = "Int" \/ s.type[child(ctx, 2)] = "Int"
         THEN SetType(s, ctx, result_type)
         ELSE ErrorLog_add(SetType(s, ctx, "ERROR"), ctx, "INVALID_BINARY_OP")

binary_on_ints(s, ctx, result_type) ==
    IF ~Typed(s, child(ctx, 1)) \/ ~Typed(s, child(ctx, 2)) THEN Raise(s, "AttributeError")
    ELSE IF s.type[child(ctx, 1)] = "Int" /\ s.type[child(ctx, 2)] = "Int"
         THEN SetType(s, ctx, result_type)
         ELSE ErrorLog_add(SetType(s, ctx, "ERROR"), ctx, "INVALID_BINARY_OP")

I_exitMulDiv(s, ctx) == binary_on_ints(s, ctx, "Int")

I_exitAddSub(s, ctx) ==
    IF ctx.tok = "+" /\ ~Typed(s, child(ctx, 1)) THEN Raise(s, "AttributeError")
    ELSE IF ctx.tok = "+" /\ s.type[child(ctx, 1)] = "String" /\ ~Typed(s, child(ctx, 2))
         THEN Raise(s, "AttributeError")
    ELSE IF /\ ctx.tok = "+"
            /\ s.type[child(ctx, 1)] = "String"
            /\ s.type[child(ctx, 2)] = "String"
         THEN SetType(s, ctx, "String")
         ELSE binary_on_ints(s, ctx, "Int")

I_exitCompare(s, ctx) == binary_on_ints(s, ctx, "Bool")

I_exitVariable(s, ctx) ==
    IF s.current_scope = 0 THEN Raise(s, "AttributeError")
    ELSE LET symbol == resolve(s.scopes, s.current_scope, ctx.id) IN
         IF symbol = NoSymbol THEN Raise(s, "AttributeError")
         ELSE IF ~Truthy(symbol.type)
              THEN ErrorLog_add(SetType(s, ctx, "ERROR"), ctx, "UNDEFINED_NAME")
              ELSE SetType(s, ctx, symbol.type)

I_exitStringLiteral(s, ctx) == SetType(s, ctx, "String")

I_exitBoolLiteral(s, ctx) == SetType(s, ctx, "Bool")

I_exitFuncCallExpr(s, ctx) ==
    IF ~Typed(s, child(ctx, 1)) THEN Raise(s, "AttributeError")
    ELSE SetType(s, ctx, s.type[child(ctx, 1)])

InferTypesAndCheckConstraints(s, ctx) ==
    CASE ctx.ev = "enter" /\ ctx.kind = "Script" -> I_enterScript(s, ctx)
      [] ctx.ev = "enter" /\ ctx.kind = "Main" -> I_enterMain(s, ctx)
      [] ctx.ev = "exit" /\ ctx.kind = "Main" -> I_exitMain(s, ctx)
      [] ctx.ev = "exit" /\ ctx.kind = "Return" -> I_exitReturn(s, ctx)
      [] ctx.ev = "exit" /\ ctx.kind = "VarDec" -> I_exitVarDec(s, ctx)
      [] ctx.ev = "exit" /\ ctx.kind = "Assignment" -> I_exitAssignment(s, ctx)
      [] ctx.ev = "exit" /\ ctx.kind = "While" -> I_exitWhile(s, ctx)
      [] ctx.ev = "exit" /\ ctx.kind = "If" -> I_exitIf(s, ctx)
      [] ctx.ev = "exit" /\ ctx.kind = "Print" -> I_exitPrint(s, ctx)
      [] ctx.ev = "exit" /\ ctx.kind = "FuncCallStmt" -> I_exitFuncCallStmt(s, ctx)
      [] ctx.ev = "exit" /\ ctx.kind = "IntLiteral" -> I_exitIntLiteral(s, ctx)
      [] ctx.ev = "exit" /\ ctx.kind = "Neg" -> I_exitNeg(s, ctx)
      [] ctx.ev = "exit" /\ ctx.kind = "Parens" -> I_exitParens(s, ctx)
      [] ctx.ev = "exit" /\ ctx.kind = "MulDiv" -> I_exitMulDiv(s, ctx)
      [] ctx.ev = "exit" /\ ctx.kind = "AddSub" -> I_exitAddSub(s, ctx)
      [] ctx.ev = "exit" /\ ctx.kind = "Compare" -> I_exitCompare(s, ctx)
      [] ctx.ev = "exit" /\ ctx.kind = "Variable" -> I_exitVariable(s, ctx)
      [] ctx.ev = "exit" /\ ctx.kind = "StringLiteral" -> I_exitStringLiteral(s, ctx)
      [] ctx.ev = "exit" /\ ctx.kind = "BoolLiteral" -> I_exitBoolLiteral(s, ctx)
      [] ctx.ev = "exit" /\ ctx.kind = "FuncCallExpr" -> I_exitFuncCallExpr(s, ctx)
      [] OTHER -> s

\* A whole walk of one listener over a list of events; an exception raised by
\* a handler ends the walk.
RECURSIVE walk(_, _, _)
walk(pass, s, events) ==
    IF events = <<>> \/ s.exc # None THEN s
    ELSE walk(pass, IF pass = 1 THEN DefineScopesAndSymbols(s, Head(events))
                    ELSE InferTypesAndCheckConstraints(s, Head(events)),
              Tail(events))

(***************************************************************************)
(* Assembly text.  A fragment is a sequence of lines; a line is a record   *)
(* [op, r1, r2, r3, imm, lab, str].  A label definition `lab:` has op      *)
(* "label:", a data definition `lab: .asciiz str` has op ".asciiz".        *)
(***************************************************************************)
Line(op, r1, r2, r3, imm, lab, str) ==
    [op |-> op, r1 |-> r1, r2 |-> r2, r3 |-> r3, imm |-> imm, lab |-> lab, str |-> str]

li(rd, imm) == Line("li", rd, "", "", imm, "", "")
la(rd, lab) == Line("la", rd, "", "", 0, lab, "")
sw(rt, off, base) == Line("sw", rt, base, "", off, "", "")
lw(rt, off, base) == Line("lw", rt, base, "", off, "", "")
addiu(rd, rs, imm) == Line("addiu", rd, rs, "", imm, "", "")
arith(op, rd, rs, rt) == Line(op, rd, rs, rt, 0, "", "")
beq(rs, rt, lab) == Line("beq", rs, rt, "", 0, lab, "")
move(rd, rs) == Line("move", rd, rs, "", 0, "", "")
jal(lab) == Line("jal", "", "", "", 0, lab, "")
jump(lab) == Line("j", "", "", "", 0, lab, "")
jr(rs) == Line("jr", rs, "", "", 0, "", "")
syscall == Line("syscall", "", "", "", 0, "", "")
label(lab) == Line("label:", "", "", "", 0, lab, "")
asciiz(lab, str) == Line(".asciiz", "", "", "", 0, lab, str)
directive(d) == Line(d, "", "", "", 0, "", "")

\* the signed 32-bit range of a MIPS register
MaxInt32 == 2147483646 + 1
MinInt32 == (0 - MaxInt32) - 1

\* The integer literals of the model's programs, and the number an INT token's
\* text stands for once the assembler reads it back.
IntLits == (0..MaxLit) \cup {5, MaxInt32}
IntValue(text) == CHOOSE n \in IntLits : ToString(n) = text

(***************************************************************************)
(* templates.py                                                            *)
(***************************************************************************)
script(string_literals, main) ==
    <<directive(".data"),
      asciiz("true_string", "\"true\""),
      asciiz("false_string", "\"false\"")>>
    \o string_literals
    \o <<directive(".text"),
         label("true_false_string"),
         beq("$t0", "$zero", "choose_false"),
         la("$a0", "true_string"),
         jump("end_true_false_string"),
         label("choose_false"),
         la("$a0", "false_string"),
         label("end_true_false_string"),
         jr("$ra"),
         label("main")>>
    \o main
    \o <<label("halt"), li("$v0", 10), syscall>>

\* add_sub popping the slot at 0($sp) instead of 4($sp)
add_sub_wrong_slot(expr0, expr1, operation) ==
    expr0
    \o <<sw("$t0", 0, "$sp"), addiu("$sp", "$sp", -4)>>
    \o expr1
    \o <<lw("$s1", 0, "$sp"), arith(operation, "$t0", "$s1", "$t0"), addiu("$sp", "$sp", 4)>>

add_sub(expr0, expr1, operation) ==
    expr0
    \o <<sw("$t0", 0, "$sp"), addiu("$sp", "$sp", -4)>>
    \o expr1
    \o <<lw("$s1", 4, "$sp"), arith(operation, "$t0", "$s1", "$t0"), addiu("$sp", "$sp", 4)>>

if_(condition, true_block, endif_label) ==
    condition
    \o <<li("$t1", 0), beq("$t0", "$t1", endif_label)>>
    \o true_block
    \o <<label(endif_label)>>

print_int_or_string(expr, service_code) ==
    expr \o <<move("$a0", "$t0"), li("$v0", service_code), syscall>>

print_bool(expr) ==
    expr \o <<jal("true_false_string"), li("$v0", 4), syscall>>

(***************************************************************************)
(* nimble2MIPS.py: MIPSGenerator.  The generator state g carries the       *)
(* tree's scope and type annotations (g.scope, g.type) beside the          *)
(* generator's own fields and the mips attribute.                          *)
(***************************************************************************)
MIPSGenerator(scope, type) ==
    [label_index |-> -1, string_literals |-> <<>>, current_scope |-> 0,
     mips |-> EmptyFn, scope |-> scope, type |-> type, exc |-> None, calls |-> <<>>]

\* the label unique_label(base) returns, and the generator after the call
LabelText(base, n) == base \o "_" \o ToString(n)

\* unique_label without the increment
unique_label_stuck(g, base) ==
    [g EXCEPT !.calls = Append(@, LabelText(base, g.label_index))]

unique_label(g, base) ==
    [g EXCEPT !.label_index = @ + 1,
              !.calls = Append(@, LabelText(base, g.label_index + 1))]

LastLabel(g) == g.calls[Len(g.calls)]

HasMips(g, p) == p \in DOMAIN g.mips

SetMips(g, ctx, text) == [g EXCEPT !.mips = (ctx.path :> text) @@ @]

RECURSIVE JoinMips(_, _, _, _)
JoinMips(g, ctx, i, n) ==
    IF i > n THEN <<>> ELSE g.mips[child(ctx, i)] \o JoinMips(g, ctx, i + 1, n)

G_enterMain(g, ctx) ==
    IF ctx.path \notin DOMAIN g.scope THEN Raise(g, "AttributeError")
    ELSE [g EXCEPT !.current_scope = g.scope[ctx.path]]

StringLiteralLines(g) ==
    [i \in 1..Len(g.string_literals) |->
        asciiz(g.string_literals[i].label, g.string_literals[i].string)]

G_exitScript(g, ctx) ==
    IF ~HasMips(g, child(ctx, ctx.n)) THEN Raise(g, "AttributeError")
    ELSE SetMips(g, ctx, script(StringLiteralLines(g), g.mips[child(ctx, ctx.n)]))

G_exitMain(g, ctx) ==
    IF ~HasMips(g, child(ctx, 1)) THEN Raise(g, "AttributeError")
    ELSE SetMips(g, ctx, g.mips[child(ctx, 1)])

G_exitBlock(g, ctx) ==
    IF \E i \in 1..ctx.n : ~HasMips(g, child(ctx, i)) THEN Raise(g, "AttributeError")
    ELSE SetMips(g, ctx, JoinMips(g, ctx, 1, ctx.n))

G_exitBoolLiteral(g, ctx) ==
    SetMips(g, ctx, <<li("$t0", IF ctx.tok = "true" THEN 1 ELSE 0)>>)

G_exitIntLiteral(g, ctx) == SetMips(g, ctx, <<li("$t0", IntValue(ctx.tok))>>)

\* self.string_literals[label] = text: a dict keeps one entry per key
PutLiteral(lits, lab, text) ==
    IF \E i \in 1..Len(lits) : lits[i].label = lab
    THEN [i \in 1..Len(lits) |->
            IF lits[i].label = lab THEN [label |-> lab, string |-> text] ELSE lits[i]]
    ELSE Append(lits, [label |-> lab, string |-> text])

G_exitStringLiteral(g, ctx) ==
    LET h == unique_label(g, "string") IN
    SetMips([h EXCEPT !.string_literals = PutLiteral(@, LastLabel(h), ctx.tok)],
            ctx, <<la("$t0", LastLabel(h))>>)

G_exitPrint(g, ctx) ==
    IF child(ctx, 1) \notin DOMAIN g.type \/ ~HasMips(g, child(ctx, 1))
    THEN Raise(g, "AttributeError")
    ELSE IF g.type[child(ctx, 1)] = "Bool"
         THEN SetMips(g, ctx, print_bool(g.mips[child(ctx, 1)]))
         ELSE SetMips(g, ctx, print_int_or_string(g.mips[child(ctx, 1)],
                                 IF g.type[child(ctx, 1)] = "Int" THEN 1 ELSE 4))

G_exitBody(g, ctx) ==
    IF ~HasMips(g, child(ctx, 2)) THEN Raise(g, "AttributeError")
    ELSE SetMips(g, ctx, g.mips[child(ctx, 2)])

G_exitAddSub(g, ctx) ==
    IF ~HasMips(g, child(ctx, 1)) \/ ~HasMips(g, child(ctx, 2))
    THEN Raise(g, "AttributeError")
    ELSE SetMips(g, ctx, add_sub(g.mips[child(ctx, 1)], g.mips[child(ctx, 2)],
                                 IF ctx.tok = "+" THEN "add" ELSE "sub"))

G_exitIf(g, ctx) ==
    IF ~HasMips(g, child(ctx, 1)) \/ ~HasMips(g, child(ctx, 2))
    THEN Raise(g, "AttributeError")
    ELSE LET h == unique_label(g, "endif") IN
         SetMips(h, ctx, if_(g.mips[child(ctx, 1)], g.mips[child(ctx, 2)], LastLabel(h)))

\* exitVarBlock, exitVarDec, exitAssignment, exitWhile, exitNeg, exitParens,
\* exitCompare, exitVariable, exitMulDiv: `pass`
G_pass(g, ctx) == g

MIPSGeneratorListener(g, ctx) ==
    CASE ctx.ev = "enter" /\ ctx.kind = "Main" -> G_enterMain(g, ctx)
      [] ctx.ev = "exit" /\ ctx.kind = "Script" -> G_exitScript(g, ctx)
      [] ctx.ev = "exit" /\ ctx.kind = "Main" -> G_exitMain(g, ctx)
      [] ctx.ev = "exit" /\ ctx.kind = "Block" -> G_exitBlock(g, ctx)
      [] ctx.ev = "exit" /\ ctx.kind = "BoolLiteral" -> G_exitBoolLiteral(g, ctx)
      [] ctx.ev = "exit" /\ ctx.kind = "IntLiteral" -> G_exitIntLiteral(g, ctx)
      [] ctx.ev = "exit" /\ ctx.kind = "StringLiteral" -> G_exitStringLiteral(g, ctx)
      [] ctx.ev = "exit" /\ ctx.kind = "Print" -> G_exitPrint(g, ctx)
      [] ctx.ev = "exit" /\ ctx.kind = "Body" -> G_exitBody(g, ctx)
      [] ctx.ev = "exit" /\ ctx.kind = "AddSub" -> G_exitAddSub(g, ctx)
      [] ctx.ev = "exit" /\ ctx.kind = "If" -> G_exitIf(g, ctx)
      [] ctx.ev = "exit" /\ ctx.kind \in {"VarBlock", "VarDec", "Assignment", "While", "Neg",
                                          "Parens", "Compare", "Variable", "MulDiv"}
           -> G_pass(g, ctx)
      [] OTHER -> g

RECURSIVE generate(_, _)
generate(g, events) ==
    IF events = <<>> \/ g.exc # None THEN g
    ELSE generate(MIPSGeneratorListener(g, Head(events)), Tail(events))

(***************************************************************************)
(* A MIPS machine for straight-line fragments (li, sw, lw, addiu, add,     *)
(* sub): what the instructions of templates.add_sub do when SPIM runs      *)
(* them.  add and sub trap on signed overflow; addiu wraps.                *)
(***************************************************************************)
\* a + b in 32 bits, wrapping around (no intermediate value leaves the range)
AddWrap32(a, b) ==
    IF b > 0 /\ a > MaxInt32 - b THEN MinInt32 + ((a - MaxInt32) + (b - 1))
    ELSE IF b < 0 /\ a < MinInt32 - b THEN MaxInt32 - ((MinInt32 - a) + ((0 - b) - 1))
    ELSE a + b

\* a + b or a - b leaves the signed 32-bit range
AddOverflows(a, b) == (b > 0 /\ a > MaxInt32 - b) \/ (b < 0 /\ a < MinInt32 - b)
SubOverflows(a, b) == (b < 0 /\ a > MaxInt32 + b) \/ (b > 0 /\ a < MinInt32 + b)

\* SPIM starts a program with $sp = 0x7fffeffc
StackTop == MaxInt32 - 4099

Load(code, sp0) ==
    [code |-> code, pc |-> 1, t0 |-> 0, s1 |-> 0, sp |-> sp0, sp0 |-> sp0,
     mem |-> EmptyFn, status |-> "running", unpushed_read |-> FALSE, low |-> sp0]

Reg(m, r) == CASE r = "$t0" -> m.t0 [] r = "$s1" -> m.s1 [] r = "$sp" -> m.sp

SetReg(m, r, v) ==
    CASE r = "$t0" -> [m EXCEPT !.t0 = v]
      [] r = "$s1" -> [m EXCEPT !.s1 = v]
      [] r = "$sp" -> [m EXCEPT !.sp = v, !.low = IF v < @ THEN v ELSE @]

Execute(m, i) ==
    CASE i.op = "li" -> SetReg(m, i.r1, i.imm)
      [] i.op = "sw" -> [m EXCEPT !.mem = ((Reg(m, i.r2) + i.imm) :> Reg(m, i.r1)) @@ @]
      [] i.op = "lw" ->
            LET addr == Reg(m, i.r2) + i.imm IN
            IF addr \in DOMAIN m.mem
            THEN SetReg(m, i.r1, m.mem[addr])
            ELSE [SetReg(m, i.r1, 0) EXCEPT !.unpushed_read = TRUE]
      [] i.op = "addiu" -> SetReg(m, i.r1, AddWrap32(Reg(m, i.r2), i.imm))
      [] i.op = "add" ->
            IF AddOverflows(Reg(m, i.r2), Reg(m, i.r3)) THEN [m EXCEPT !.status = "trap"]
            ELSE SetReg(m, i.r1, Reg(m, i.r2) + Reg(m, i.r3))
      [] i.op = "sub" ->
            IF SubOverflows(Reg(m, i.r2), Reg(m, i.r3)) THEN [m EXCEPT !.status = "trap"]
            ELSE SetReg(m, i.r1, Reg(m, i.r2) - Reg(m, i.r3))

Step(m) ==
    LET n == Execute(m, m.code[m.pc]) IN
    IF n.status = "trap" THEN n
    ELSE [n EXCEPT !.pc = m.pc + 1,
                   !.status = IF m.pc = Len(m.code) THEN "done" ELSE "running"]

(***************************************************************************)
(* Inputs.                                                                 *)
(***************************************************************************)
SeqsUpTo(S, n) == UNION {[1..k -> S] : k \in 0..n}

NoResult ==
    [parse |-> "none", analysis |-> "none", generated |-> FALSE, error_found |-> FALSE,
     output |-> [kind |-> "unwritten", mips |-> <<>>, errors |-> <<>>]]

IdleGen == MIPSGenerator(EmptyFn, EmptyFn)
IdleMach == Load(<<>>, StackTop)

AnalysisDecs ==
    {VarDec(n, t) : n \in {"x", "y"}, t \in {"Int", "String"}}
    \cup {VarDecInit("x", "String", StringLiteral("\"a\"")),
          VarDecInit("x", "Int", StringLiteral("\"a\"")),
          VarDecInit("x", "Int", Variable("y"))}

AnalysisStmts ==
    {Assignment("x", IntLiteral("5")),
     Assignment("y", Variable("x")),
     PrintStmt(Variable("x")),
     PrintStmt(Variable("y")),
     If(IntLiteral("5"), Block(<<PrintStmt(IntLiteral("1"))>>)),
     While(BoolLiteral("true"), Block(<<>>)),
     Return(<<>>),
     Return(<<IntLiteral("5")>>),
     FuncCallStmt("f"),
     PrintStmt(FuncCallExpr("f")),
     PrintStmt(AddSub("+", Variable("x"), StringLiteral("\"a\""))),
     PrintStmt(Neg("-", Variable("x"))),
     PrintStmt(Parens(Compare("<", IntLiteral("5"), Variable("y")))),
     PrintStmt(MulDiv("*", IntLiteral("5"), IntLiteral("5")))}

AnalysisBlocks == {<<>>} \cup {<<st>> : st \in AnalysisStmts}

AnalysisMains ==
    {Main(d, b) : d \in SeqsUpTo(AnalysisDecs, MaxDecs), b \in AnalysisBlocks}

\* The batch driver parses every file from the `script` rule; a direct caller
\* of do_semantic_analysis may hand it a tree parsed from the `main` rule.
AnalysisInputs ==
    {[caller |-> "driver", syntax_ok |-> FALSE, tree |-> Script(<<>>, Main(<<>>, <<>>))]}
    \cup {[caller |-> "driver", syntax_ok |-> TRUE, tree |-> Script(f, m)] :
            f \in {<<>>, <<FuncDef("f")>>}, m \in AnalysisMains}
    \cup {[caller |-> "direct", syntax_ok |-> TRUE, tree |-> m] : m \in AnalysisMains}

(***************************************************************************)
(* Spec: do_semantic_analysis, called by the batch driver (one iteration   *)
(* of its loop over the source files) or directly.                         *)
(***************************************************************************)
Init ==
    /\ input \in AnalysisInputs
    /\ phase = IF input.caller = "driver" THEN "parse" ELSE "call"
    /\ todo = <<>>
    /\ an = NewAnalysis
    /\ result = NoResult
    /\ gen = IdleGen
    /\ mach = IdleMach

\* batch_compile.py line 39: parse raises SyntaxErrors or returns the tree
Parse ==
    /\ phase = "parse"
    /\ IF input.syntax_ok
       THEN /\ phase' = "call"
            /\ result' = [result EXCEPT !.parse = "ok"]
       ELSE /\ phase' = "except"
            /\ result' = [result EXCEPT !.parse = "SyntaxErrors"]
    /\ UNCHANGED <<input, todo, an, gen, mach>>

\* do_semantic_analysis lines 16-18: a fresh ErrorLog, and pass 1 starts
Call ==
    /\ phase = "call"
    /\ an' = NewListener(NewAnalysis)
    /\ todo' = WalkEvents(input.tree, <<>>)
    /\ phase' = "pass1"
    /\ UNCHANGED <<input, result, gen, mach>>

Visit(s) == [s EXCEPT !.visited = @ + 1]

Pass1Step ==
    /\ phase = "pass1"
    /\ todo # <<>>
    /\ LET s == DefineScopesAndSymbols(Visit(an), Head(todo)) IN
       /\ an' = s
       /\ todo' = Tail(todo)
       /\ IF s.exc # None
          THEN phase' = "raised" /\ result' = [result EXCEPT !.analysis = s.exc]
          ELSE phase' = "pass1" /\ UNCHANGED result
    /\ UNCHANGED <<input, gen, mach>>

\* line 19: pass 2 is a new listener over the same tree and the same ErrorLog
StartPass2 ==
    /\ phase = "pass1"
    /\ todo = <<>>
    /\ an' = [NewListener(an) EXCEPT !.visited = 0]
    /\ todo' = WalkEvents(input.tree, <<>>)
    /\ phase' = "pass2"
    /\ UNCHANGED <<input, result, gen, mach>>

Pass2Step ==
    /\ phase = "pass2"
    /\ todo # <<>>
    /\ LET s == InferTypesAndCheckConstraints(Visit(an), Head(todo)) IN
       /\ an' = s
       /\ todo' = Tail(todo)
       /\ IF s.exc # None
          THEN phase' = "raised" /\ result' = [result EXCEPT !.analysis = s.exc]
          ELSE phase' = "pass2" /\ UNCHANGED result
    /\ UNCHANGED <<input, gen, mach>>

\* lines 20-23
Outcome(log) == IF total_entries(log) # 0 THEN "NimbleSemanticErrors" ELSE "returned"

Gate ==
    /\ phase = "pass2"
    /\ todo = <<>>
    /\ result' = [result EXCEPT !.analysis = Outcome(an.log)]
    /\ phase' = "analysed"
    /\ UNCHANGED <<input, todo, an, gen, mach>>

\* the generator walk taken out of the try block's sequence: it runs whenever
\* the file parsed
walks_generator_ungated(r) == r.parse = "ok"

\* batch_compile.py lines 41-57: the generator walks the tree only when
\* neither parse nor do_semantic_analysis raised; SyntaxErrors and
\* NimbleSemanticErrors are caught and their text becomes the output; any
\* other exception leaves output = '' and goes on up; `finally` writes output.
walks_generator(r) == r.parse = "ok" /\ r.analysis = "returned"

compile_output(r, log, g) ==
    CASE r.parse = "SyntaxErrors" -> [kind |-> "Syntax error(s)", mips |-> <<>>, errors |-> <<>>]
      [] r.parse = "ok" /\ r.analysis = "NimbleSemanticErrors" ->
            [kind |-> "Semantic error(s)", mips |-> <<>>, errors |-> log]
      [] walks_generator(r) /\ g.exc = None /\ <<>> \in DOMAIN g.mips ->
            [kind |-> "mips", mips |-> g.mips[<<>>], errors |-> <<>>]
      [] OTHER -> [kind |-> "", mips |-> <<>>, errors |-> <<>>]

DriverFinish ==
    /\ input.caller = "driver"
    /\ phase \in {"except", "analysed", "raised"}
    /\ LET g == IF walks_generator(result)
                THEN generate(MIPSGenerator(an.scope, an.type), WalkEvents(input.tree, <<>>))
                ELSE gen
       IN  /\ gen' = g
           /\ result' = [result EXCEPT
                  !.generated = walks_generator(result),
                  !.error_found = (result.parse = "SyntaxErrors"
                                   \/ result.analysis = "NimbleSemanticErrors"),
                  !.output = compile_output(result, an.log, g)]
    /\ phase' = "written"
    /\ UNCHANGED <<input, todo, an, mach>>

Next == Parse \/ Call \/ Pass1Step \/ StartPass2 \/ Pass2Step \/ Gate \/ DriverFinish

Spec == Init /\ [][Next]_vars

(***************************************************************************)
(* SpecMatrix: the pass 2 handlers of the binary operators, applied to a   *)
(* binary node whose two operands carry any pair of primitive types.       *)
(***************************************************************************)
BinaryOps ==
    {<<"MulDiv", "*">>, <<"MulDiv", "/">>, <<"AddSub", "+">>, <<"AddSub", "-">>,
     <<"Compare", "<">>, <<"Compare", "<=">>, <<"Compare", "==">>}

Operand == Ctx("Expr", "", "", <<>>)

InitMatrix ==
    /\ \E b \in BinaryOps :
         input = [caller |-> "handler", syntax_ok |-> TRUE,
                  tree |-> Ctx(b[1], "", b[2], <<Operand, Operand>>)]
    /\ \E t0 \in PrimitiveType, t1 \in PrimitiveType :
         an = [NewAnalysis EXCEPT !.type = (<<1>> :> t0) @@ (<<2>> :> t1)]
    /\ phase = "operands"
    /\ todo = <<Event("exit", input.tree, <<>>)>>
    /\ result = NoResult
    /\ gen = IdleGen
    /\ mach = IdleMach

ExitBinary ==
    /\ phase = "operands"
    /\ an' = InferTypesAndCheckConstraints(an, Head(todo))
    /\ todo' = Tail(todo)
    /\ phase' = "typed"
    /\ UNCHANGED <<input, result, gen, mach>>

NextMatrix == ExitBinary

SpecMatrix == InitMatrix /\ [][NextMatrix]_vars

(***************************************************************************)
(* SpecGen: a MIPSGenerator walk over a script that the two listeners      *)
(* annotated without logging an error.  Pass 1 is walked over the whole    *)
(* script and pass 2 over its main subtree (where its enterMain picks up   *)
(* the scope pass 1 attached).                                             *)
(***************************************************************************)
MainPath(tree) == <<Len(tree.kids)>>

Annotate(tree) ==
    walk(2, NewListener(walk(1, NewListener(NewAnalysis), WalkEvents(tree, <<>>))),
         WalkEvents(NodeAt(tree, MainPath(tree)), MainPath(tree)))

GenDecs ==
    {<<>>, <<VarDecInit("x", "Int", IntLiteral("5"))>>, <<VarDec("b", "Bool")>>}

GenStmts ==
    {PrintStmt(IntLiteral("5")),
     PrintStmt(BoolLiteral("true")),
     PrintStmt(StringLiteral("\"a\"")),
     PrintStmt(AddSub("+", IntLiteral("1"), IntLiteral("5"))),
     If(BoolLiteral("true"), Block(<<>>)),
     If(BoolLiteral("false"), Block(<<PrintStmt(StringLiteral("\"b\""))>>)),
     If(BoolLiteral("true"), Block(<<If(BoolLiteral("true"), Block(<<>>))>>)),
     IfElse(BoolLiteral("true"), Block(<<>>), Block(<<If(BoolLiteral("true"), Block(<<>>))>>)),
     PrintStmt(Variable("x")),
     PrintStmt(Variable("b")),
     Assignment("x", IntLiteral("1")),
     While(BoolLiteral("false"), Block(<<>>)),
     PrintStmt(Neg("-", IntLiteral("1"))),
     PrintStmt(Parens(IntLiteral("1"))),
     PrintStmt(MulDiv("*", IntLiteral("1"), IntLiteral("1"))),
     PrintStmt(Compare("<", IntLiteral("1"), IntLiteral("1")))}

GenTrees ==
    {Script(<<>>, Main(d, b)) : d \in GenDecs, b \in SeqsUpTo(GenStmts, MaxStmts)}

Accepted(a) == a.exc = None /\ total_entries(a.log) = 0

InitGen ==
    /\ \E t \in GenTrees :
         /\ Accepted(Annotate(t))
         /\ input = [caller |-> "generator", syntax_ok |-> TRUE, tree |-> t]
         /\ an = Annotate(t)
    /\ phase = "analysed"
    /\ todo = <<>>
    /\ result = NoResult
    /\ gen = IdleGen
    /\ mach = IdleMach

\* batch_compile.py line 41: MIPSGenerator(), and the walk starts
GenStart ==
    /\ phase = "analysed"
    /\ gen' = MIPSGenerator(an.scope, an.type)
    /\ todo' = WalkEvents(input.tree, <<>>)
    /\ phase' = "generating"
    /\ UNCHANGED <<input, an, result, mach>>

GenStep ==
    /\ phase = "generating"
    /\ todo # <<>>
    /\ LET g == MIPSGeneratorListener(gen, Head(todo)) IN
       /\ gen' = g
       /\ todo' = Tail(todo)
       /\ phase' = IF g.exc # None THEN "raised"
                   ELSE IF Tail(todo) = <<>> THEN "generated" ELSE "generating"
    /\ UNCHANGED <<input, an, result, mach>>

NextGen == GenStart \/ GenStep

SpecGen == InitGen /\ [][NextGen]_vars

(***************************************************************************)
(* SpecExec: the fragment MIPSGenerator attaches to an expression built    *)
(* from integer literals, + and -, run on the machine.                     *)
(***************************************************************************)
ExecLits == {IntLiteral(ToString(n)) : n \in (0..MaxLit) \cup {MaxInt32}}

ExecOps == {"+", "-"}

ExecExprs1 == ExecLits \cup {AddSub(op, l, r) : op \in ExecOps, l \in ExecLits, r \in ExecLits}

ExecExprs ==
    ExecExprs1 \cup {AddSub(op, l, r) : op \in ExecOps, l \in ExecExprs1, r \in ExecExprs1}

Fragment(e) == generate(IdleGen, WalkEvents(e, <<>>)).mips[<<>>]

InitExec ==
    /\ \E e \in ExecExprs : input = [caller |-> "machine", syntax_ok |-> TRUE, tree |-> e]
    /\ \E sp0 \in {StackTop, StackTop - 8} : mach = Load(Fragment(input.tree), sp0)
    /\ phase = "executing"
    /\ todo = <<>>
    /\ an = NewAnalysis
    /\ result = NoResult
    /\ gen = IdleGen

ExecStep ==
    /\ phase = "executing"
    /\ mach.status = "running"
    /\ mach' = Step(mach)
    /\ UNCHANGED <<input, phase, todo, an, result, gen>>

NextExec == ExecStep

SpecExec == InitExec /\ [][NextExec]_vars

(***************************************************************************)
(* What the properties below read off a tree and a log.                    *)
(***************************************************************************)
Range(f) == {f[i] : i \in DOMAIN f}

\* the nodes of a tree, each as its exit event
Nodes(tree) == {e \in Range(WalkEvents(tree, <<>>)) : e.ev = "exit"}

Count(log, category) == Cardinality({i \in 1..Len(log) : log[i].category = category})

CountAt(log, category, path) ==
    Cardinality({i \in 1..Len(log) : log[i].category = category /\ log[i].path = path})

MainPathOf(tree) == IF tree.kind = "Script" THEN MainPath(tree) ELSE <<>>

\* the declarations of main's varBlock, in source order
Decs(tree) == NodeAt(tree, MainPathOf(tree)).kids[1].kids[1].kids

Declared(tree, name) == \E i \in 1..Len(Decs(tree)) : Decs(tree)[i].id = name

\* the type token of the first declaration of name
FirstType(tree, name) ==
    LET ds == Decs(tree)
        first == CHOOSE i \in 1..Len(ds) :
                    ds[i].id = name /\ \A j \in 1..(i - 1) : ds[j].id # name
    IN  ds[first].tok

Pass1Done == phase \in {"pass2", "analysed", "raised"}

AnalysisEnded == phase \in {"analysed", "raised"}

(***************************************************************************)
(* C1.  do_semantic_analysis ends, for every tree, in one of two ways: it  *)
(* raises NimbleSemanticErrors when the log shared by the two passes holds *)
(* an entry, and returns the tree when the log is empty.                   *)
(* Refuted by the code: pass 2's enterScript reads the enclosing_scope of  *)
(* a current_scope that is still None.                                     *)
(***************************************************************************)
C1_TwoOutcomes ==
    AnalysisEnded =>
        /\ result.analysis \in {"returned", "NimbleSemanticErrors"}
        /\ (result.analysis = "NimbleSemanticErrors") = (total_entries(an.log) > 0)

(***************************************************************************)
(* C2.  Both passes visit every node of the tree before the error count is *)
(* inspected; neither pass aborts part-way, whatever the tree holds        *)
(* (function definitions and calls included).                              *)
(* Refuted by the code: pass 2 is aborted by an AttributeError.            *)
(***************************************************************************)
C2_BothPassesRunToCompletion ==
    /\ phase # "raised"
    /\ (phase = "analysed" => an.visited = Len(WalkEvents(input.tree, <<>>)))

(***************************************************************************)
(* C3.  When pass 2 exits a variable reference or an assignment whose name *)
(* does not resolve in the current scope chain, the handler does not fail: *)
(* it adds exactly one UNDEFINED_NAME entry and no ASSIGN_TO_WRONG_TYPE    *)
(* entry, and a variable reference gets the type ERROR.                    *)
(* Refuted by the code: the handlers read `.type` of the None that         *)
(* resolve returned.                                                       *)
(***************************************************************************)
C3_UnresolvedNameIsLogged ==
    [][(/\ phase = "pass2"
        /\ todo # <<>>
        /\ Head(todo).ev = "exit"
        /\ Head(todo).kind \in {"Variable", "Assignment"}
        /\ an.current_scope # 0
        /\ resolve(an.scopes, an.current_scope, Head(todo).id) = NoSymbol)
       => (/\ an'.exc = None
           /\ Count(an'.log, "UNDEFINED_NAME") = Count(an.log, "UNDEFINED_NAME") + 1
           /\ Count(an'.log, "ASSIGN_TO_WRONG_TYPE") = Count(an.log, "ASSIGN_TO_WRONG_TYPE")
           /\ (Head(todo).kind = "Variable" =>
                 /\ Head(todo).path \in DOMAIN an'.type
                 /\ an'.type[Head(todo).path] = "ERROR"))]_vars

(***************************************************************************)
(* C4.  The binary-operator type matrix: over every pair of operand types, *)
(* + gives Int on (Int, Int) and String on (String, String); -, * and /    *)
(* give Int on (Int, Int) only; the comparisons give Bool on (Int, Int)    *)
(* only; every other combination types the node ERROR and appends exactly  *)
(* one INVALID_BINARY_OP entry; the combinations that succeed append none. *)
(***************************************************************************)
MatrixType(op, t0, t1) ==
    CASE op = "+" /\ t0 = "String" /\ t1 = "String" -> "String"
      [] op \in {"+", "-", "*", "/"} /\ t0 = "Int" /\ t1 = "Int" -> "Int"
      [] op \in {"<", "<=", "=="} /\ t0 = "Int" /\ t1 = "Int" -> "Bool"
      [] OTHER -> "ERROR"

\* C4: once a binary handler has run, the node has the matrix type and the log
\* holds one INVALID_BINARY_OP entry exactly when that type is ERROR.
C4_TypeMatrix ==
    phase = "typed" =>
        LET expected == MatrixType(input.tree.tok, an.type[<<1>>], an.type[<<2>>]) IN
        /\ an.exc = None
        /\ <<>> \in DOMAIN an.type
        /\ an.type[<<>>] = expected
        /\ total_entries(an.log) = (IF expected = "ERROR" THEN 1 ELSE 0)
        /\ Count(an.log, "INVALID_BINARY_OP") = total_entries(an.log)

\* C4, witness: String + Int was typed ERROR with one INVALID_BINARY_OP entry.
C4_Witness ==
    /\ phase = "typed"
    /\ input.tree.tok = "+"
    /\ an.type[<<1>>] = "String"
    /\ an.type[<<2>>] = "Int"
    /\ an.type[<<>>] = "ERROR"
    /\ Count(an.log, "INVALID_BINARY_OP") = 1

(***************************************************************************)
(* C5, as stated: a name declared twice in one scope gets one              *)
(* DUPLICATE_NAME entry, keeps the first declaration's type in the scope,  *)
(* and that first type is what pass 2 checks the initializer of every      *)
(* declaration of the name against.                                        *)
(* Refuted: pass 2's exitVarDec compares the initializer with the TYPE     *)
(* token of the declaration it is visiting.                                *)
(***************************************************************************)
Repeated(tree) ==
    {i \in 1..Len(Decs(tree)) : \E j \in 1..(i - 1) : Decs(tree)[j].id = Decs(tree)[i].id}

FirstDeclarationWins ==
    Pass1Done =>
        /\ Count(an.log, "DUPLICATE_NAME") = Cardinality(Repeated(input.tree))
        /\ MainPathOf(input.tree) \in DOMAIN an.scope
        /\ LET symbols == an.scopes[an.scope[MainPathOf(input.tree)]].symbols IN
           /\ DOMAIN symbols = {d.id : d \in Range(Decs(input.tree))}
           /\ \A name \in DOMAIN symbols : symbols[name] = FirstType(input.tree, name)

InitializerNodes(tree) == {d \in Nodes(tree) : d.kind = "VarDec" /\ d.n = 1}

C6_DeclaredNamesResolve ==
    AnalysisEnded =>
        \A v \in Nodes(input.tree) :
            (v.kind = "Variable" /\ Declared(input.tree, v.id)) =>
                /\ v.path \in DOMAIN an.type
                /\ an.type[v.path] = FirstType(input.tree, v.id)
                /\ CountAt(an.log, "UNDEFINED_NAME", v.path) = 0

(***************************************************************************)
(* C7.  Label uniqueness: the i-th call of unique_label in one generator   *)
(* run returns base_(i-1), whatever the base, so the labels it hands out   *)
(* are pairwise distinct and differ from the labels of the program         *)
(* envelope; every string literal occurrence has a pool entry of its own;  *)
(* and no fragment attached to a node, the whole program included, defines *)
(* a label twice.                                                          *)
(***************************************************************************)
FixedLabels ==
    {"true_string", "false_string", "true_false_string", "choose_false",
     "end_true_false_string", "main", "halt"}

Bases == {"string", "endif"}

IsLabelDefinition(line) == line.op \in {"label:", ".asciiz"}

DefinedLabels(text) ==
    LET defs == SelectSeq(text, IsLabelDefinition) IN
    [i \in 1..Len(defs) |-> defs[i].lab]

NoRepeat(labels) ==
    \A i \in 1..Len(labels) : \A j \in 1..Len(labels) : i # j => labels[i] # labels[j]

ExpressionKinds ==
    {"IntLiteral", "BoolLiteral", "StringLiteral", "Variable", "Neg", "Parens",
     "MulDiv", "AddSub", "Compare"}

StatementKinds == {"Assignment", "While", "If", "Print"}

\* C9: the generator walk does not raise, and ends with a fragment on every
\* expression and statement node.
C9_EveryNodeGetsCode ==
    /\ phase # "raised"
    /\ phase = "generated" =>
         \A e \in Nodes(input.tree) :
            e.kind \in ExpressionKinds \cup StatementKinds => HasMips(gen, e.path)

(***************************************************************************)
(* C10.  Stack discipline of additive expressions: the fragment of a + or  *)
(* - expression starts with its left operand's fragment; running it never  *)
(* reads a stack slot the fragment did not itself store, never leaves $sp  *)
(* above its starting value, and, unless an add or sub traps on overflow,  *)
(* ends with $sp where it started and (left) op (right) in $t0.            *)
(***************************************************************************)
RECURSIVE Value(_), Overflows(_)
Value(e) ==
    IF e.kind = "IntLiteral" THEN IntValue(e.tok)
    ELSE IF e.tok = "+" THEN Value(e.kids[1]) + Value(e.kids[2])
    ELSE Value(e.kids[1]) - Value(e.kids[2])
Overflows(e) ==
    IF e.kind = "IntLiteral" THEN FALSE
    ELSE \/ Overflows(e.kids[1])
         \/ Overflows(e.kids[2])
         \/ IF e.tok = "+" THEN AddOverflows(Value(e.kids[1]), Value(e.kids[2]))
            ELSE SubOverflows(Value(e.kids[1]), Value(e.kids[2]))

====
